---- MODULE Spec2Model ----
(***************************************************************************)
(* Model of the asset-pipeline scripts of histopen/assets:                 *)
(*   - tooldbtm      (Tools/jsontools/tooltv.js, getSheetData.js)          *)
(*   - tooltl        (Tools/jsontools/tooltl.mjs)                          *)
(*   - atlas builder (Tools/Icons_TimeMarks scripts/buildIcons_TimeMarks)  *)
(*   - tmconvert     (svg scripts/recenteresizeformat/transform.mjs)       *)
(* Each script is a state machine of its own; a specification runs one     *)
(* script and leaves the variables of the others at their idle values.     *)
(***************************************************************************)
EXTENDS Integers, Sequences, FiniteSets, TLC

VARIABLES
  \* ---- tooldbtm ----
  dbtmPc,        \* "idle" | "start" | "fetched" | "exited"
  dbtmData,      \* value returned by getSheetData
  dbtmFile,      \* content of Jsons/dbtm.json
  dbtmExit,      \* exit status of the process (-1 while running)
  dbtmSaveCalls, \* the data of each call of saveJsonToFile, in order
  dbtmReported,  \* duplicates printed by the BUILD REFUSED banner
  dbtmFetchOk,   \* getSheetData has returned a value
  dbtmRes,       \* the HTTP response getSheetData received
  \* ---- tooltl ----
  tlPc,          \* position in the pipeline script
  source,        \* file names in Icons_TimeMarks/source
  target,        \* file names in Icons_TimeMarks/target
  tmIcons,       \* file names in Icons_TimeMarks/TM_Icons
  backup,        \* file names in BACKUP tm_icons/<today>
  sourceFiles,   \* const sourceFiles
  converted,     \* const converted
  tmIconFiles,   \* const tmIconFiles
  pending,       \* elements of converted the 3b/c loop has not reached yet
  committedSvgs, \* const committedSvgs
  tlLog,         \* commands run and file operations made, in order
  tlExit,        \* exit status of the pipeline (-1 while running)
  source0,       \* source/ when the run started
  tmIcons0,      \* TM_Icons/ when the run started
  target0,       \* target/ when the run started
  targetAfterTm, \* target/ when tmconvert returned
  \* ---- atlas builder ----
  atPc,          \* position in buildAtlas
  svgDirFiles,   \* TM_Icons/: file name -> content
  svgFiles,      \* const files of buildIconMap, from the file the loop is at
  scanned,       \* the files the loop of buildIconMap has been through
  iconMap,       \* const iconMap: icon id -> file name
  excludedFiles, \* const excludedFiles
  iconMapFile,   \* what tMIconMap.json holds
  printed,       \* the entries printExcludedWarnings has printed
  atExit,        \* exit status of the build (-1 while running)
  \* ---- tmconvert, stage TRANSFORM 3 on one file ----
  tmPc,          \* "idle" | "center" | "written"
  contentBounds, \* what getContentBounds returns for the file
  svgAttrs,      \* width, height and viewBox of the file in target/
  \* ---- tmconvert, the stage loops of main ----
  stPc,          \* "idle" | "start" | "stages" | "done" | "failed"
  tmFiles,       \* const files
  stage,         \* the loop main is in, as an index of Stages
  filePos,       \* the entry of files that loop is at
  stageLog,      \* the passes made (stage, file, entry of files), in order
  stExit,        \* exit status (-1 while running)
  \* ---- tmconvert, stage TRANSFORM 0 on one element ----
  colPc,         \* "idle" | "colors" | "written"
  element0,      \* the element as read
  element,       \* the element as it is now
  \* ---- UI sprite builder ----
  spPc,          \* "idle" | "icons" | "done"
  uiIcons,       \* the icon files of the UI_* folders, in processing order
  iconPos,       \* the icon the loops are at
  symbols,       \* let symbols: the ids of the <symbol> elements, in order
  globalDefs,    \* let globalDefs: the ids of the hoisted elements, in order
  spriteFile,    \* the ids in sprites-ui.svg, in document order
  \* ---- tooltv2 ----
  tvPc,          \* "idle" | "start" | "fetched" | "exited"
  tvRes,         \* the HTTP response getSheetData received
  tvFetchOk,     \* getSheetData has returned a value
  tvData,        \* the entries of the timeview getSheetData returned
  warnings,      \* const warnings
  tvSaveCalls,   \* the data of each call of saveJsonToFile, in order
  tvExit,        \* exit status (-1 while running)
  \* ---- buildIcons_TimeMarks.mjs: atlas sizes ----
  fmPc,          \* "idle" | "start" | "sizes" | "done" | "failed"
  fmIconMap,     \* the ids that are keys of iconMap
  unrenderable,  \* the ids of the icons whose rendering throws
  iconIds,       \* const iconIds
  sizePos,       \* position in ATLAS_SIZES of the next size
  atlasDims,     \* the values calculateAtlasDimensions returned, in order
  atlasJson,     \* timeline-atlas-{size}.json by size, for the sizes written
  atlasPng,      \* compositeOps of timeline-atlas-{size}.png by size, for the sizes written
  fmExit         \* exit status (-1 while running)

dbtmVars == <<dbtmPc, dbtmData, dbtmFile, dbtmExit, dbtmSaveCalls, dbtmReported, dbtmFetchOk,
              dbtmRes>>

tlVars == <<tlPc, source, target, tmIcons, backup, sourceFiles, converted, tmIconFiles,
            pending, committedSvgs, tlLog, tlExit, source0, tmIcons0, target0, targetAfterTm>>

atVars == <<atPc, svgDirFiles, svgFiles, scanned, iconMap, excludedFiles, iconMapFile,
            printed, atExit>>

tmVars == <<tmPc, contentBounds, svgAttrs>>

stVars == <<stPc, tmFiles, stage, filePos, stageLog, stExit>>

colVars == <<colPc, element0, element>>

spVars == <<spPc, uiIcons, iconPos, symbols, globalDefs, spriteFile>>

tvVars == <<tvPc, tvRes, tvFetchOk, tvData, warnings, tvSaveCalls, tvExit>>

fmVars == <<fmPc, fmIconMap, unrenderable, iconIds, sizePos, atlasDims, atlasJson, atlasPng, fmExit>>

vars == <<dbtmVars, tlVars, atVars, tmVars, stVars, colVars, spVars, tvVars, fmVars>>

\* Sequences over S of length at most n.
BoundedSeq(S, n) == UNION {[1..k -> S] : k \in 0..n}

(***************************************************************************)
(* tooldbtm                                                                *)
(***************************************************************************)

\* Largest number of rows of the exported sheet.
MaxRows == 3

\* Cell values as they arrive in the JSON: "undefined" is a key the row
\* object does not have, "" the empty string, "a" and "b" two other values
\* (strings, numbers, null: whatever is neither undefined nor '').
CellVals == {"undefined", "", "a", "b"}

Rows == [wtId : CellVals, rank : CellVals]

\* The parsed body: isArr says whether data[0] is an array (of row objects).
NoData == [isArr |-> FALSE, rows |-> <<>>]
Payloads == {NoData} \cup {[isArr |-> TRUE, rows |-> r] : r \in BoundedSeq(Rows, MaxRows)}

\* HTTP responses: res.ok, and what res.json() yields.
\*   "notjson": res.json() rejects; "scalar": a JSON number, string, boolean
\*   or null; "object": a JSON object or array (the payload).
Responses ==
  {[ok |-> o, body |-> b, data |-> NoData] : o \in BOOLEAN, b \in {"notjson", "scalar"}}
  \cup {[ok |-> o, body |-> "object", data |-> p] : o \in BOOLEAN, p \in Payloads}

\* No response received yet.
NoResponse == [ok |-> FALSE, body |-> "none", data |-> NoData]

\* Mutant of getSheetData: res.ok is not examined.
getSheetDataIgnoreStatus(res) ==
  IF res.body = "object" THEN [thrown |-> FALSE, data |-> res.data]
  ELSE [thrown |-> TRUE, data |-> NoData]

\* getSheetData(url): throws unless the response is ok and the body parses
\* to a non-null object.
getSheetData(res) ==
  IF ~res.ok THEN [thrown |-> TRUE, data |-> NoData]
  ELSE IF res.body = "notjson" THEN [thrown |-> TRUE, data |-> NoData]
  ELSE IF res.body = "scalar" THEN [thrown |-> TRUE, data |-> NoData]
  ELSE [thrown |-> FALSE, data |-> res.data]

\* Mutant of checkDuplicates: only the first field is examined.
checkDuplicatesFirstFieldOnly(rows, fields) ==
  LET field == fields[1] IN
  {d \in [field : {field}, value : CellVals \ {"undefined", ""}, rows : SUBSET (2..(Len(rows) + 1))] :
     /\ d.rows = {i + 1 : i \in {k \in 1..Len(rows) : rows[k][field] = d.value}}
     /\ Cardinality(d.rows) > 1}

\* checkDuplicates(rows, fields): for each field, the values other than
\* undefined and '' that occur on more than one row, with their sheet row
\* numbers (index + 2: 1-based plus the header row).
checkDuplicates(rows, fields) ==
  UNION {
    {d \in [field : {fields[n]}, value : CellVals \ {"undefined", ""},
            rows : SUBSET (2..(Len(rows) + 1))] :
       /\ d.rows = {i + 1 : i \in {k \in 1..Len(rows) : rows[k][fields[n]] = d.value}}
       /\ Cardinality(d.rows) > 1}
    : n \in 1..Len(fields)}

DbtmFileInit == [state |-> "previous", data |-> NoData]

DbtmInit ==
  /\ dbtmPc = "start"
  /\ dbtmData = NoData
  /\ dbtmFile = DbtmFileInit
  /\ dbtmExit = -1
  /\ dbtmSaveCalls = <<>>
  /\ dbtmReported = {}
  /\ dbtmFetchOk = FALSE
  /\ dbtmRes = NoResponse

DbtmIdle ==
  /\ dbtmPc = "idle"
  /\ dbtmData = NoData
  /\ dbtmFile = DbtmFileInit
  /\ dbtmExit = -1
  /\ dbtmSaveCalls = <<>>
  /\ dbtmReported = {}
  /\ dbtmFetchOk = FALSE
  /\ dbtmRes = NoResponse

\* tooldbtm, up to the await: const data = await getSheetData(webappUrl).
\* A throw lands in the catch block, which exits with status 1.
DbtmFetch ==
  /\ dbtmPc = "start"
  /\ \E res \in Responses :
       LET r == getSheetData(res) IN
       /\ dbtmRes' = res
       /\ IF r.thrown
          THEN /\ dbtmPc' = "exited"
               /\ dbtmExit' = 1
               /\ UNCHANGED <<dbtmData, dbtmFetchOk>>
          ELSE /\ dbtmPc' = "fetched"
               /\ dbtmData' = r.data
               /\ dbtmFetchOk' = TRUE
               /\ UNCHANGED dbtmExit
  /\ UNCHANGED <<dbtmFile, dbtmSaveCalls, dbtmReported>>
  /\ UNCHANGED <<tlVars, atVars, tmVars, stVars, colVars, spVars, tvVars, fmVars>>

\* tooldbtm after the await: rows = data[0], checkDuplicates, the refusal or
\* saveJsonToFile. rows.forEach throws a TypeError when data[0] is no array;
\* saveJsonToFile throws when writeFileSync fails (the file may then be left
\* as it was or partly written); both land in the catch block (exit 1).
DbtmCheckAndSave ==
  /\ dbtmPc = "fetched"
  /\ dbtmPc' = "exited"
  /\ UNCHANGED <<dbtmData, dbtmFetchOk, dbtmRes>>
  /\ UNCHANGED <<tlVars, atVars, tmVars, stVars, colVars, spVars, tvVars, fmVars>>
  /\ IF ~dbtmData.isArr
     THEN /\ dbtmExit' = 1
          /\ UNCHANGED <<dbtmFile, dbtmSaveCalls, dbtmReported>>
     ELSE LET duplicates == checkDuplicates(dbtmData.rows, <<"wtId", "rank">>) IN
          IF duplicates # {}
          THEN /\ dbtmReported' = duplicates
               /\ dbtmExit' = 1
               /\ UNCHANGED <<dbtmFile, dbtmSaveCalls>>
          ELSE /\ dbtmSaveCalls' = Append(dbtmSaveCalls, dbtmData)
               /\ UNCHANGED dbtmReported
               /\ \/ /\ dbtmFile' = [state |-> "written", data |-> dbtmData]
                     /\ dbtmExit' = 0
                  \/ /\ dbtmFile' \in {dbtmFile, [state |-> "partial", data |-> NoData]}
                     /\ dbtmExit' = 1

DbtmNext == DbtmFetch \/ DbtmCheckAndSave

(***************************************************************************)
(* tooltl: the TL pipeline                                                 *)
(***************************************************************************)

\* Largest number of files in source/, TM_Icons/ and target/ at the start.
MaxSource == 2
MaxIcons == 2
MaxStale == 1

\* A file name. num > 0 stands for a name that starts with the four digits
\* of num and a hyphen ("0001-a.svg" is [num |-> 1, stem |-> "a", ext |->
\* "svg"]); num = 0 for a name without such a prefix ("x.svg").
FileName(n, s, e) == [num |-> n, stem |-> s, ext |-> e]

SvgNames == {FileName(1, "a", "svg"), FileName(1, "b", "svg"),
             FileName(2, "a", "svg"), FileName(0, "x", "svg")}
PngNames == {FileName(1, "a", "png"), FileName(2, "b", "PNG")}
OtherNames == {FileName(0, "leave.me", "here")}

SourceNames == SvgNames \cup PngNames \cup OtherNames
\* TM_Icons/ at the start: icons, and a file that is no SVG.
IconNames == {FileName(1, "a", "svg"), FileName(1, "b", "svg"),
              FileName(2, "a", "svg"), FileName(1, "b", "png")}
\* target/ at the start: SVGs that an earlier tmconvert left there.
TargetNames == {FileName(1, "a", "svg"), FileName(2, "b", "svg")}

SubsetsUpTo(S, n) == {x \in SUBSET S : Cardinality(x) <= n}

\* The extension in lower case (the /i flag of the regular expressions).
Lower(e) == CASE e = "PNG" -> "png" [] e = "SVG" -> "svg" [] OTHER -> e

\* Mutant of IsSvgOrPng: every file of source/ counts as an icon.
IsSvgOrPngAnyFile(f) == TRUE

\* /\.(svg|png)$/i.test(f)
IsSvgOrPng(f) == Lower(f.ext) \in {"svg", "png"}

\* /\.svg$/i.test(f)
IsSvg(f) == Lower(f.ext) = "svg"

\* Mutant of svgName: the extension .png is not replaced.
svgNameNoReplace(f) == f

\* f.replace(/\.png$/i, '.svg')
svgName(f) == IF Lower(f.ext) = "png" THEN [f EXCEPT !.ext = "svg"] ELSE f

\* getIconNum(f): the 4-digit prefix, 0 for null.
getIconNum(f) == f.num

\* Mutant of sameNumberPrefix: only a file of the same name is removed.
sameNameOnly(num, files, name) == {existing \in files : existing = name}

\* The files of the listing the inner loop of step 3b unlinks for an icon
\* `name` of prefix num: existing.startsWith(`${num}-`).
sameNumberPrefix(num, files, name) == {existing \in files : existing.num = num}

\* const msg: 'update dbtm + N TM icon(s)' or 'update dbtm'.
commitMsg(n) ==
  IF n > 0 THEN [text |-> "update dbtm + N TM icon(s)", N |-> n]
  ELSE [text |-> "update dbtm", N |-> 0]

NoFile == FileName(0, "", "")
NoMsg == [text |-> "", N |-> 0]

\* Entries of tlLog: a command given to run() with its result (TRUE where
\* the script does not look at it), or a file operation (renameSync,
\* unlinkSync).
RunEvent(c, ok, m) ==
  [op |-> "run", cmd |-> c, ok |-> ok, msg |-> m, file |-> NoFile, from |-> "", to |-> ""]
RenameEvent(f, from, to) ==
  [op |-> "rename", cmd |-> "", ok |-> TRUE, msg |-> NoMsg, file |-> f, from |-> from, to |-> to]
UnlinkEvent(f) ==
  [op |-> "unlink", cmd |-> "", ok |-> TRUE, msg |-> NoMsg, file |-> f, from |-> "TM_Icons", to |-> ""]

TlIdle ==
  /\ tlPc = "idle"
  /\ source = {} /\ target = {} /\ tmIcons = {} /\ backup = {}
  /\ sourceFiles = {} /\ converted = {} /\ tmIconFiles = {} /\ pending = {}
  /\ committedSvgs = <<>> /\ tlLog = <<>> /\ tlExit = -1
  /\ source0 = {} /\ tmIcons0 = {} /\ target0 = {} /\ targetAfterTm = {}

TlInit ==
  /\ tlPc = "dbtm"
  /\ source \in SubsetsUpTo(SourceNames, MaxSource)
  /\ target \in SubsetsUpTo(TargetNames, MaxStale)
  /\ tmIcons \in SubsetsUpTo(IconNames, MaxIcons)
  /\ backup = {}
  /\ sourceFiles = {} /\ converted = {} /\ tmIconFiles = {} /\ pending = {}
  /\ committedSvgs = <<>> /\ tlLog = <<>> /\ tlExit = -1
  /\ source0 = source /\ tmIcons0 = tmIcons /\ target0 = target
  /\ targetAfterTm = {}

\* process.exit(1), or an uncaught exception (Node exits with status 1).
TlExit1 == tlPc' = "exited" /\ tlExit' = 1

\* Mutant of TlDbtm: the result of run() is ignored.
TlDbtmIgnoreFailure ==
  /\ tlPc = "dbtm"
  /\ \E ok \in BOOLEAN : tlLog' = Append(tlLog, RunEvent("dbtm", ok, NoMsg))
  /\ tlPc' = "scan"
  /\ UNCHANGED <<source, target, tmIcons, backup, sourceFiles, converted, tmIconFiles,
                 pending, committedSvgs, tlExit, source0, tmIcons0, target0, targetAfterTm>>
  /\ UNCHANGED <<dbtmVars, atVars, tmVars, stVars, colVars, spVars, tvVars, fmVars>>

\* [1/4] run('node jsontools/tooldbtm.js'); a failure exits with status 1.
TlDbtm ==
  /\ tlPc = "dbtm"
  /\ \E ok \in BOOLEAN :
       /\ tlLog' = Append(tlLog, RunEvent("dbtm", ok, NoMsg))
       /\ IF ok THEN tlPc' = "scan" /\ UNCHANGED tlExit ELSE TlExit1
  /\ UNCHANGED <<source, target, tmIcons, backup, sourceFiles, converted, tmIconFiles,
                 pending, committedSvgs, source0, tmIcons0, target0, targetAfterTm>>
  /\ UNCHANGED <<dbtmVars, atVars, tmVars, stVars, colVars, spVars, tvVars, fmVars>>

\* [2/4] const sourceFiles = readdirSync(SOURCE_DIR).filter(...); without
\* SVG/PNG the icon steps are skipped.
TlScan ==
  /\ tlPc = "scan"
  /\ sourceFiles' = {f \in source : IsSvgOrPng(f)}
  /\ tlPc' = IF sourceFiles' = {} THEN "git" ELSE "tmconvert"
  /\ UNCHANGED <<source, target, tmIcons, backup, converted, tmIconFiles, pending,
                 committedSvgs, tlLog, tlExit, source0, tmIcons0, target0, targetAfterTm>>
  /\ UNCHANGED <<dbtmVars, atVars, tmVars, stVars, colVars, spVars, tvVars, fmVars>>

\* What transform.mjs can write into target/: every SVG of source/ under
\* its own name, and for each PNG the .svg that potrace traced from it.
TmWritable == {f \in source : Lower(f.ext) = "svg"}
                \cup {[f EXCEPT !.ext = "svg"] : f \in {g \in source : Lower(g.ext) = "png"}}

\* Mutant of TlTmconvert: a failed tmconvert is taken for a success.
TlTmconvertIgnoreFailure ==
  /\ tlPc = "tmconvert"
  /\ \E tmOk \in BOOLEAN, written \in SUBSET TmWritable :
       /\ tmOk => {f \in source : Lower(f.ext) = "svg"} \subseteq written
       /\ tlLog' = Append(tlLog, RunEvent("tmconvert", tmOk, NoMsg))
       /\ target' = target \cup written
       /\ targetAfterTm' = target'
       /\ tlPc' = "backup"
  /\ UNCHANGED <<source, tmIcons, backup, sourceFiles, converted, tmIconFiles, pending,
                 committedSvgs, tlExit, source0, tmIcons0, target0>>
  /\ UNCHANGED <<dbtmVars, atVars, tmVars, stVars, colVars, spVars, tvVars, fmVars>>

\* run('node "svg scripts/recenteresizeformat/transform.mjs"'). The script
\* never touches source/. A run that ends well has copied every SVG and
\* written the .svg of each PNG with an alpha channel that potrace traced; a
\* run that throws (exit 1) may have written any part of that.
TlTmconvert ==
  /\ tlPc = "tmconvert"
  /\ \E tmOk \in BOOLEAN, written \in SUBSET TmWritable :
       /\ tmOk => {f \in source : Lower(f.ext) = "svg"} \subseteq written
       /\ tlLog' = Append(tlLog, RunEvent("tmconvert", tmOk, NoMsg))
       /\ target' = target \cup written
       /\ targetAfterTm' = target'
       /\ tlPc' = IF tmOk THEN "backup" ELSE "git"
  /\ UNCHANGED <<source, tmIcons, backup, sourceFiles, converted, tmIconFiles, pending,
                 committedSvgs, tlExit, source0, tmIcons0, target0>>
  /\ UNCHANGED <<dbtmVars, atVars, tmVars, stVars, colVars, spVars, tvVars, fmVars>>

\* A sequence listing the set S once each, in some order.
ListingsOf(S) == {s \in [1..Cardinality(S) -> S] : {s[i] : i \in 1..Len(s)} = S}

\* const converted = sourceFiles.filter(f => targetFiles.has(...)); then
\* [3a] every converted source file is renamed into the backup folder of the
\* day, and tmIconFiles is read.
TlBackup ==
  /\ tlPc = "backup"
  /\ LET targetFiles == {f \in target : IsSvg(f)}
         conv == {f \in sourceFiles : svgName(f) \in targetFiles} IN
       /\ converted' = conv
       /\ IF conv = {}
          THEN /\ tlPc' = "git"
               /\ UNCHANGED <<source, backup, tmIconFiles, pending, tlLog>>
          ELSE /\ source' = source \ conv
               /\ backup' = backup \cup conv
               /\ \E order \in ListingsOf(conv) :
                    tlLog' = tlLog \o [i \in 1..Len(order) |-> RenameEvent(order[i], "source", "backup")]
               /\ tmIconFiles' = {f \in tmIcons : IsSvg(f)}
               /\ pending' = conv
               /\ tlPc' = "update"
  /\ UNCHANGED <<target, tmIcons, sourceFiles, committedSvgs, tlExit,
                 source0, tmIcons0, target0, targetAfterTm>>
  /\ UNCHANGED <<dbtmVars, atVars, tmVars, stVars, colVars, spVars, tvVars, fmVars>>

\* [3b/c] one pass of the loop `for (const srcFile of converted)`: the
\* files of tmIconFiles with the same number prefix are unlinked, then the
\* converted SVG is renamed from target/ into TM_Icons/. unlinkSync and
\* renameSync throw ENOENT on a file that is not there: the exception is
\* not caught and ends the process.
TlUpdateIcon ==
  /\ tlPc = "update"
  /\ \E srcFile \in pending :
       LET name == svgName(srcFile)
           num == getIconNum(name)
           doomed == IF num # 0 THEN sameNumberPrefix(num, tmIconFiles, name) ELSE {} IN
       IF ~(doomed \subseteq tmIcons)
       THEN \* unlinkSync throws on the first file already gone
            /\ \E gone \in SUBSET (doomed \cap tmIcons) :
                 /\ tmIcons' = tmIcons \ gone
                 /\ \E order \in ListingsOf(gone) :
                      tlLog' = tlLog \o [i \in 1..Len(order) |-> UnlinkEvent(order[i])]
            /\ TlExit1
            /\ UNCHANGED <<target, pending, committedSvgs>>
       ELSE /\ \E order \in ListingsOf(doomed) :
              LET unlinks == [i \in 1..Len(order) |-> UnlinkEvent(order[i])] IN
              IF name \notin target
              THEN \* renameSync throws: the SVG was moved by an earlier pass
                   /\ tmIcons' = tmIcons \ doomed
                   /\ tlLog' = tlLog \o unlinks
                   /\ TlExit1
                   /\ UNCHANGED <<target, pending, committedSvgs>>
              ELSE /\ tmIcons' = (tmIcons \ doomed) \cup {name}
                   /\ target' = target \ {name}
                   /\ tlLog' = (tlLog \o unlinks) \o <<RenameEvent(name, "target", "TM_Icons")>>
                   /\ committedSvgs' = Append(committedSvgs, name)
                   /\ pending' = pending \ {srcFile}
                   /\ tlPc' = IF pending' = {} THEN "atlas" ELSE "update"
                   /\ UNCHANGED tlExit
  /\ UNCHANGED <<source, backup, sourceFiles, converted, tmIconFiles,
                 source0, tmIcons0, target0, targetAfterTm>>
  /\ UNCHANGED <<dbtmVars, atVars, tmVars, stVars, colVars, spVars, tvVars, fmVars>>

\* [3d] run('node "Icons_TimeMarks scripts/buildIcons_TimeMarks.mjs"'); a
\* failure exits with status 1.
TlAtlas ==
  /\ tlPc = "atlas"
  /\ \E ok \in BOOLEAN :
       /\ tlLog' = Append(tlLog, RunEvent("atlas", ok, NoMsg))
       /\ IF ok THEN tlPc' = "git" /\ UNCHANGED tlExit ELSE TlExit1
  /\ UNCHANGED <<source, target, tmIcons, backup, sourceFiles, converted, tmIconFiles,
                 pending, committedSvgs, source0, tmIcons0, target0, targetAfterTm>>
  /\ UNCHANGED <<dbtmVars, atVars, tmVars, stVars, colVars, spVars, tvVars, fmVars>>

\* [4/4] git add: everything when icons were committed, else dbtm.json only.
\* The result of run() is not looked at.
TlGitAdd ==
  /\ tlPc = "git"
  /\ tlLog' = Append(tlLog,
                  RunEvent(IF Len(committedSvgs) > 0 THEN "git add -A" ELSE "git add Jsons/dbtm.json",
                           TRUE, NoMsg))
  /\ tlPc' = "commit"
  /\ UNCHANGED <<source, target, tmIcons, backup, sourceFiles, converted, tmIconFiles,
                 pending, committedSvgs, tlExit, source0, tmIcons0, target0, targetAfterTm>>
  /\ UNCHANGED <<dbtmVars, atVars, tmVars, stVars, colVars, spVars, tvVars, fmVars>>

\* Mutant of TlGitCommit: git push follows whatever git commit returned.
TlGitCommitAlwaysPush ==
  /\ tlPc = "commit"
  /\ \E committed \in BOOLEAN :
       tlLog' = Append(tlLog, RunEvent("git commit", committed, commitMsg(Len(committedSvgs))))
  /\ tlPc' = "push"
  /\ UNCHANGED <<source, target, tmIcons, backup, sourceFiles, converted, tmIconFiles,
                 pending, committedSvgs, tlExit, source0, tmIcons0, target0, targetAfterTm>>
  /\ UNCHANGED <<dbtmVars, atVars, tmVars, stVars, colVars, spVars, tvVars, fmVars>>

\* const committed = run(`git -C .. commit -m "${msg}"`); without a commit
\* the script ends here.
TlGitCommit ==
  /\ tlPc = "commit"
  /\ \E committed \in BOOLEAN :
       /\ tlLog' = Append(tlLog, RunEvent("git commit", committed, commitMsg(Len(committedSvgs))))
       /\ IF committed
          THEN tlPc' = "push" /\ UNCHANGED tlExit
          ELSE tlPc' = "done" /\ tlExit' = 0
  /\ UNCHANGED <<source, target, tmIcons, backup, sourceFiles, converted, tmIconFiles,
                 pending, committedSvgs, source0, tmIcons0, target0, targetAfterTm>>
  /\ UNCHANGED <<dbtmVars, atVars, tmVars, stVars, colVars, spVars, tvVars, fmVars>>

\* if (committed) run('git -C .. push'); the script ends.
TlGitPush ==
  /\ tlPc = "push"
  /\ tlLog' = Append(tlLog, RunEvent("git push", TRUE, NoMsg))
  /\ tlPc' = "done"
  /\ tlExit' = 0
  /\ UNCHANGED <<source, target, tmIcons, backup, sourceFiles, converted, tmIconFiles,
                 pending, committedSvgs, source0, tmIcons0, target0, targetAfterTm>>
  /\ UNCHANGED <<dbtmVars, atVars, tmVars, stVars, colVars, spVars, tvVars, fmVars>>

(***************************************************************************)
(* Atlas builder: buildIconMap, validateSvg, printExcludedWarnings          *)
(***************************************************************************)

\* Largest number of svgFiles in TM_Icons/ when the build starts.
MaxAtlasFiles == 2

\* Names in TM_Icons/: two icons of id 1, a name without the 4-digit prefix,
\* a prefix with nothing between the hyphen and .svg, an upper-case .SVG.
AtlasNames == {FileName(1, "a", "svg"), FileName(1, "b", "svg"), FileName(0, "x", "svg"),
               FileName(2, "", "svg"), FileName(2, "a", "SVG")}

\* The viewBox attribute as validateSvg sees it: the numbers parseFloat makes
\* of the parts of the first viewBox="..."; <<>> when there is no match.
ViewBoxes == {<<>>, <<0, 0, 400>>, <<0, 0, 0, 200>>, <<0, 0, 400, 200>>, <<0, 0, 21, 10>>}

\* The first width="..." and height="..." the two regular expressions match:
\* the number matched, -1 without a match.
NoAttrs == [width |-> -1, height |-> -1]
SizeAttrs == {NoAttrs, [width |-> 41, height |-> 20], [width |-> 100, height |-> 100]}

\* A file content; readable = FALSE when readFileSync throws.
Unreadable == [readable |-> FALSE, viewBox |-> <<>>, attrs |-> NoAttrs]
Contents == {Unreadable} \cup [readable : {TRUE}, viewBox : ViewBoxes, attrs : SizeAttrs]

ERR_FILENAME == "Filename must match NNNN-name.svg (4 digits + hyphen)"
ERR_NO_ASPECT == "Could not determine aspect ratio (no viewBox or width/height)"
\* `Aspect ratio ${aspectRatio.toFixed(2)}:1 is not 2:1`, without the number.
ERR_ASPECT == "Aspect ratio is not 2:1"
ERR_READ == "Could not read file"

\* /^\d{4}-.+\.svg$/.test(filename)
matchesFilenamePattern(filename) ==
  filename.num > 0 /\ filename.stem # "" /\ filename.ext = "svg"

\* Math.abs(aspectRatio - 2) > 0.1 for aspectRatio = w / h. In doubles the
\* two ratios 2.1 and 1.9 are off by more than the double 0.1, so the
\* boundary itself is rejected.
offTwoToOne(w, h) ==
  LET d == IF w >= 2 * h THEN w - 2 * h ELSE 2 * h - w IN 10 * d >= h

\* The aspect ratio validateSvg extracts, as <<w, h>>; <<>> for null.
extractAspectRatio(svgContent) ==
  LET vb == svgContent.viewBox
      at == svgContent.attrs
  IN  IF Len(vb) >= 4 /\ vb[3] > 0 /\ vb[4] > 0 THEN <<vb[3], vb[4]>>
      ELSE IF at.width # -1 /\ at.height # -1 /\ at.width > 0 /\ at.height > 0
           THEN <<at.width, at.height>>
           ELSE <<>>

\* Mutant of validateSvg: the file name is not checked.
validateSvgAnyName(filename, svgContent) ==
  LET aspectRatio == extractAspectRatio(svgContent)
      e2 == IF aspectRatio = <<>> THEN <<ERR_NO_ASPECT>>
            ELSE IF offTwoToOne(aspectRatio[1], aspectRatio[2]) THEN <<ERR_ASPECT>>
            ELSE <<>>
  IN  [valid |-> e2 = <<>>, errors |-> e2, aspectRatio |-> aspectRatio]

\* validateSvg(filename, svgContent)
validateSvg(filename, svgContent) ==
  LET aspectRatio == extractAspectRatio(svgContent)
      e1 == IF ~matchesFilenamePattern(filename) THEN <<ERR_FILENAME>> ELSE <<>>
      e2 == IF aspectRatio = <<>> THEN <<ERR_NO_ASPECT>>
            ELSE IF offTwoToOne(aspectRatio[1], aspectRatio[2]) THEN <<ERR_ASPECT>>
            ELSE <<>>
  IN  [valid |-> e1 \o e2 = <<>>, errors |-> e1 \o e2, aspectRatio |-> aspectRatio]

\* f.endsWith('.svg')
endsWithSvg(f) == f.ext = "svg"

EmptyMap == [id \in {} |-> NoFile]

\* iconMap[iconId.toString()] = filename
setIcon(map, iconId, filename) ==
  [id \in DOMAIN map \cup {iconId} |-> IF id = iconId THEN filename ELSE map[id]]

AtIdle ==
  /\ atPc = "idle"
  /\ svgDirFiles = EmptyMap
  /\ svgFiles = <<>> /\ scanned = {}
  /\ iconMap = EmptyMap /\ excludedFiles = <<>>
  /\ iconMapFile = EmptyMap /\ printed = <<>> /\ atExit = -1

AtInit ==
  /\ atPc = "start"
  /\ \E names \in SubsetsUpTo(AtlasNames, MaxAtlasFiles) : svgDirFiles \in [names -> Contents]
  /\ svgFiles = <<>> /\ scanned = {}
  /\ iconMap = EmptyMap /\ excludedFiles = <<>>
  /\ iconMapFile = EmptyMap /\ printed = <<>> /\ atExit = -1

\* An exception out of buildAtlas: 'Build failed', process.exit(1).
AtBuildFailed == atPc' = "failed" /\ atExit' = 1

\* buildIconMap, up to the loop: readdirSync(svgDir).filter(...). The order
\* of the listing is the file system's; readdirSync may throw.
AtReaddir ==
  /\ atPc = "start"
  /\ \/ /\ svgFiles' \in ListingsOf({f \in DOMAIN svgDirFiles : endsWithSvg(f)})
        /\ atPc' = "scan"
        /\ UNCHANGED atExit
     \/ /\ AtBuildFailed
        /\ UNCHANGED svgFiles
  /\ UNCHANGED <<svgDirFiles, scanned, iconMap, excludedFiles, iconMapFile, printed>>
  /\ UNCHANGED <<dbtmVars, tlVars, tmVars, stVars, colVars, spVars, tvVars, fmVars>>

\* Mutant of AtScanFile: a file that cannot be read is skipped silently.
AtScanFileSilentRead ==
  /\ atPc = "scan"
  /\ svgFiles # <<>>
  /\ LET filename == Head(svgFiles)
         svgContent == svgDirFiles[filename]
         validation == validateSvg(filename, svgContent)
     IN  /\ svgFiles' = Tail(svgFiles)
         /\ scanned' = scanned \cup {filename}
         /\ IF ~svgContent.readable
            THEN UNCHANGED <<iconMap, excludedFiles>>
            ELSE IF validation.valid
            THEN /\ iconMap' = setIcon(iconMap, getIconNum(filename), filename)
                 /\ UNCHANGED excludedFiles
            ELSE /\ excludedFiles' = Append(excludedFiles,
                                            [filename |-> filename, reasons |-> validation.errors])
                 /\ UNCHANGED iconMap
  /\ UNCHANGED <<atPc, svgDirFiles, iconMapFile, printed, atExit>>
  /\ UNCHANGED <<dbtmVars, tlVars, tmVars, stVars, colVars, spVars, tvVars, fmVars>>

\* One pass of the loop of buildIconMap.
AtScanFile ==
  /\ atPc = "scan"
  /\ svgFiles # <<>>
  /\ LET filename == Head(svgFiles)
         svgContent == svgDirFiles[filename]
         validation == validateSvg(filename, svgContent)
     IN  /\ svgFiles' = Tail(svgFiles)
         /\ scanned' = scanned \cup {filename}
         /\ IF ~svgContent.readable
            THEN /\ excludedFiles' = Append(excludedFiles,
                                            [filename |-> filename, reasons |-> <<ERR_READ>>])
                 /\ UNCHANGED iconMap
            ELSE IF validation.valid
            THEN /\ iconMap' = setIcon(iconMap, getIconNum(filename), filename)
                 /\ UNCHANGED excludedFiles
            ELSE /\ excludedFiles' = Append(excludedFiles,
                                            [filename |-> filename, reasons |-> validation.errors])
                 /\ UNCHANGED iconMap
  /\ UNCHANGED <<atPc, svgDirFiles, iconMapFile, printed, atExit>>
  /\ UNCHANGED <<dbtmVars, tlVars, tmVars, stVars, colVars, spVars, tvVars, fmVars>>

\* buildIconMap, after the loop: writeFileSync(mapPath, ...), which may throw.
AtWriteIconMap ==
  /\ atPc = "scan"
  /\ svgFiles = <<>>
  /\ \/ /\ iconMapFile' = iconMap
        /\ atPc' = "atlases"
        /\ UNCHANGED atExit
     \/ /\ AtBuildFailed
        /\ UNCHANGED iconMapFile
  /\ UNCHANGED <<svgDirFiles, svgFiles, scanned, iconMap, excludedFiles, printed>>
  /\ UNCHANGED <<dbtmVars, tlVars, tmVars, stVars, colVars, spVars, tvVars, fmVars>>

\* buildAtlas: the loop over ATLAS_SIZES; writing an atlas may throw.
AtBuildSizes ==
  /\ atPc = "atlases"
  /\ \/ /\ atPc' = "summary"
        /\ UNCHANGED atExit
     \/ AtBuildFailed
  /\ UNCHANGED <<svgDirFiles, svgFiles, scanned, iconMap, excludedFiles, iconMapFile, printed>>
  /\ UNCHANGED <<dbtmVars, tlVars, tmVars, stVars, colVars, spVars, tvVars, fmVars>>

\* buildAtlas: the summary and printExcludedWarnings(); the build ends.
AtPrintExcludedWarnings ==
  /\ atPc = "summary"
  /\ printed' = excludedFiles
  /\ atPc' = "done"
  /\ atExit' = 0
  /\ UNCHANGED <<svgDirFiles, svgFiles, scanned, iconMap, excludedFiles, iconMapFile>>
  /\ UNCHANGED <<dbtmVars, tlVars, tmVars, stVars, colVars, spVars, tvVars, fmVars>>

AtNext ==
  \/ AtReaddir
  \/ AtScanFile
  \/ AtWriteIconMap
  \/ AtBuildSizes
  \/ AtPrintExcludedWarnings

(***************************************************************************)
(* tmconvert: TRANSFORM 3, transformCenter                                 *)
(* Lengths are integers counting thousandths of a user unit, the           *)
(* resolution of toFixed(3).                                               *)
(***************************************************************************)

TARGET_WIDTH == 400
TARGET_HEIGHT == 200

\* const FILL_RATIO = 0.975, as the fraction 39/40.
FILL_RATIO_NUM == 39
FILL_RATIO_DEN == 40

\* Content widths and heights range over 0..MaxExtent times ExtentStep.
MaxExtent == 8
ExtentStep == 2500

\* Besides, two extents near the resolution of toFixed(3): 0.02 and 0.1.
Extents == {e * ExtentStep : e \in 0..MaxExtent} \cup {20, 100}
Origins == {-1250, 0}

\* Content bounds: finite numbers, or NaN in every field (a viewBox whose
\* four parts are no numbers, on a file without drawable content).
NaNBounds == [nan |-> TRUE, x |-> 0, y |-> 0, width |-> 0, height |-> 0]
Bounds == {NaNBounds} \cup [nan : {FALSE}, x : Origins, y : Origins, width : Extents, height : Extents]

\* The attributes TRANSFORM 1 leaves: width and height as it scaled them (in
\* units), the viewBox not yet recomputed.
NoViewBox == [nan |-> FALSE, x |-> 0, y |-> 0, width |-> 0, height |-> 0]
AttrsBefore == {[width |-> 400, height |-> 200, viewBox |-> NoViewBox],
                [width |-> 100, height |-> 200, viewBox |-> NoViewBox]}

\* n/d rounded to the nearest integer, halves away from zero: toFixed.
RoundDiv(n, d) ==
  IF n >= 0 THEN (2 * n + d) \div (2 * d) ELSE -((2 * (-n) + d) \div (2 * d))

\* contentAspect > targetAspect, for contentAspect = width / height:
\* Infinity for a height of 0, NaN (never greater) for 0 / 0.
widerThanTarget(b) ==
  IF b.height = 0 THEN b.width > 0
  ELSE b.width * TARGET_HEIGHT > TARGET_WIDTH * b.height

\* Mutant of transformCenter: the viewBox is the content box scaled to 2:1,
\* without the division by FILL_RATIO.
transformCenterNoMargin(b) ==
  IF b.nan
  THEN [width |-> TARGET_WIDTH, height |-> TARGET_HEIGHT,
        viewBox |-> [nan |-> TRUE, x |-> 0, y |-> 0, width |-> 0, height |-> 0]]
  ELSE LET w == IF widerThanTarget(b) THEN b.width
                ELSE (b.height * TARGET_WIDTH) \div TARGET_HEIGHT
           h == IF widerThanTarget(b) THEN (b.width * TARGET_HEIGHT) \div TARGET_WIDTH
                ELSE b.height
       IN  [width |-> TARGET_WIDTH, height |-> TARGET_HEIGHT,
            viewBox |-> [nan |-> FALSE,
                         x |-> RoundDiv(2 * b.x - (w - b.width), 2),
                         y |-> RoundDiv(2 * b.y - (h - b.height), 2),
                         width |-> w, height |-> h]]

\* Mutant of transformCenter: the viewBox starts at the corner of the content.
transformCenterNoOffset(b) ==
  IF b.nan
  THEN [width |-> TARGET_WIDTH, height |-> TARGET_HEIGHT,
        viewBox |-> [nan |-> TRUE, x |-> 0, y |-> 0, width |-> 0, height |-> 0]]
  ELSE LET wN == IF widerThanTarget(b)
                 THEN b.width * FILL_RATIO_DEN
                 ELSE (b.height * FILL_RATIO_DEN * TARGET_WIDTH) \div TARGET_HEIGHT
           hN == IF widerThanTarget(b)
                 THEN (b.width * FILL_RATIO_DEN * TARGET_HEIGHT) \div TARGET_WIDTH
                 ELSE b.height * FILL_RATIO_DEN
       IN  [width |-> TARGET_WIDTH, height |-> TARGET_HEIGHT,
            viewBox |-> [nan |-> FALSE, x |-> b.x, y |-> b.y,
                         width |-> RoundDiv(wN, FILL_RATIO_NUM),
                         height |-> RoundDiv(hN, FILL_RATIO_NUM)]]

\* transformCenter($, $svg) for content bounds b: the attributes it sets.
\* newVBWidth and newVBHeight are the fractions wN/FILL_RATIO_NUM and
\* hN/FILL_RATIO_NUM; each of the four numbers of the viewBox goes through
\* toFixed(3) on its own.
transformCenter(b) ==
  IF b.nan
  THEN [width |-> TARGET_WIDTH, height |-> TARGET_HEIGHT,
        viewBox |-> [nan |-> TRUE, x |-> 0, y |-> 0, width |-> 0, height |-> 0]]
  ELSE LET d == 2 * FILL_RATIO_NUM
           \* numerators over FILL_RATIO_NUM of newVBWidth, newVBHeight
           wN == IF widerThanTarget(b)
                 THEN b.width * FILL_RATIO_DEN
                 ELSE (b.height * FILL_RATIO_DEN * TARGET_WIDTH) \div TARGET_HEIGHT
           hN == IF widerThanTarget(b)
                 THEN (b.width * FILL_RATIO_DEN * TARGET_HEIGHT) \div TARGET_WIDTH
                 ELSE b.height * FILL_RATIO_DEN
       IN  [width |-> TARGET_WIDTH, height |-> TARGET_HEIGHT,
            viewBox |-> [nan |-> FALSE,
                         x |-> RoundDiv(b.x * d - (wN - b.width * FILL_RATIO_NUM), d),
                         y |-> RoundDiv(b.y * d - (hN - b.height * FILL_RATIO_NUM), d),
                         width |-> RoundDiv(wN, FILL_RATIO_NUM),
                         height |-> RoundDiv(hN, FILL_RATIO_NUM)]]

TmIdle ==
  /\ tmPc = "idle"
  /\ contentBounds = NaNBounds
  /\ svgAttrs = [width |-> 0, height |-> 0, viewBox |-> NoViewBox]

TmInit ==
  /\ tmPc = "center"
  /\ contentBounds \in Bounds
  /\ svgAttrs \in AttrsBefore

\* One pass of the loop of TRANSFORM 3: getContentBounds, transformCenter,
\* fs.writeFile(targetPath, $.xml()).
TmCenter ==
  /\ tmPc = "center"
  /\ svgAttrs' = transformCenter(contentBounds)
  /\ tmPc' = "written"
  /\ UNCHANGED contentBounds
  /\ UNCHANGED <<dbtmVars, tlVars, atVars, stVars, colVars, spVars, tvVars, fmVars>>

TmNext == TmCenter

(***************************************************************************)
(* tmconvert: the stage loops of main                                      *)
(***************************************************************************)

\* Largest number of entries of const files.
MaxTmFiles == 2

\* Names of target/ files to process. The same name is twice in files when
\* source/ holds NAME.svg and a transparent NAME.png.
TmFileNames == {FileName(1, "a", "svg"), FileName(2, "b", "svg")}

\* Mutant of Stages: the centering loop comes before the SVGO loop.
StagesCenterBeforeBake == <<"preprocess", "colors", "resize", "center", "bake", "validation">>

\* The loops of main over files, in the order of the source text.
Stages == <<"preprocess", "colors", "resize", "bake", "center", "validation">>

StIdle ==
  /\ stPc = "idle"
  /\ tmFiles = <<>> /\ stage = 0 /\ filePos = 0 /\ stageLog = <<>> /\ stExit = -1

StInit ==
  /\ stPc = "start"
  /\ tmFiles \in BoundedSeq(TmFileNames, MaxTmFiles)
  /\ stage = 0 /\ filePos = 0 /\ stageLog = <<>> /\ stExit = -1

\* main, up to the first loop: files = [...svgSourceFiles, ...convertedFromPng];
\* without a file main returns.
StListFiles ==
  /\ stPc = "start"
  /\ IF tmFiles = <<>>
     THEN stPc' = "done" /\ stExit' = 0 /\ UNCHANGED <<stage, filePos>>
     ELSE stPc' = "stages" /\ stage' = 1 /\ filePos' = 1 /\ UNCHANGED stExit
  /\ UNCHANGED <<tmFiles, stageLog>>
  /\ UNCHANGED <<dbtmVars, tlVars, atVars, tmVars, colVars, spVars, tvVars, fmVars>>

\* One pass of the loop of stage `name` on files[filePos]: read the file,
\* transform it, write it. An exception leaves main (main().catch: exit 1),
\* either before the file is written or, where the pass reads a field of the
\* transform's result after writing (throwsAfterWrite), after it. After the
\* last file the next loop starts; after the last loop main returns.
StagePass(name, throwsAfterWrite) ==
  /\ stPc = "stages"
  /\ Stages[stage] = name
  /\ LET event == [stage |-> name, file |-> tmFiles[filePos], pos |-> filePos] IN
     \/ /\ stageLog' = Append(stageLog, event)
        /\ IF filePos < Len(tmFiles)
           THEN filePos' = filePos + 1 /\ UNCHANGED <<stage, stPc, stExit>>
           ELSE IF stage < Len(Stages)
           THEN stage' = stage + 1 /\ filePos' = 1 /\ UNCHANGED <<stPc, stExit>>
           ELSE stPc' = "done" /\ stExit' = 0 /\ UNCHANGED <<stage, filePos>>
     \/ /\ stPc' = "failed" /\ stExit' = 1
        /\ UNCHANGED <<stage, filePos, stageLog>>
     \/ /\ throwsAfterWrite
        /\ stageLog' = Append(stageLog, event)
        /\ stPc' = "failed" /\ stExit' = 1
        /\ UNCHANGED <<stage, filePos>>
  /\ UNCHANGED tmFiles
  /\ UNCHANGED <<dbtmVars, tlVars, atVars, tmVars, colVars, spVars, tvVars, fmVars>>

\* PRE-PROCESS: transformSimplifyStructure
StPreprocess == StagePass("preprocess", FALSE)

\* TRANSFORM 0: transformNormalizeColors
StNormalizeColors == StagePass("colors", FALSE)

\* TRANSFORM 1: transformResize; result.newContentWidth throws after the
\* write when the viewBox attribute does not parse.
StResize == StagePass("resize", TRUE)

\* TRANSFORM 2: transformMinify (SVGO)
StBake == StagePass("bake", FALSE)

\* TRANSFORM 3: getContentBounds, transformCenter; contentBounds.x throws
\* after the write when there are no bounds.
StCenter == StagePass("center", TRUE)

\* VALIDATION: reads each file and prints the checklist.
StValidate == StagePass("validation", FALSE)

StNext ==
  \/ StListFiles
  \/ StPreprocess
  \/ StNormalizeColors
  \/ StResize
  \/ StBake
  \/ StCenter
  \/ StValidate

(***************************************************************************)
(* tmconvert: TRANSFORM 0, transformNormalizeColors                        *)
(* Every step of the function works element by element, so the model runs  *)
(* it on one element.                                                      *)
(***************************************************************************)

\* const TARGET_COLOR = '#ffffff'
TARGET_COLOR == "#ffffff"

\* Values of a fill or stroke attribute; "absent" when the element has none.
AttrColors == {"absent", "none", "#fff", TARGET_COLOR, "red"}

\* An inline style: the value of its fill and of its stroke declaration
\* ("absent" without one), and whether it has a fill-rule declaration.
NoStyle == [present |-> FALSE, fill |-> "absent", stroke |-> "absent", fillRule |-> FALSE]
Styles == {NoStyle} \cup [present : {TRUE}, fill : AttrColors,
                          stroke : {"absent", "none", "red"}, fillRule : BOOLEAN]

\* Elements: a shape (path, circle, rect, ...) or another element (g).
Elements == [tag : {"path", "g"}, fill : AttrColors,
             stroke : {"absent", "none", "#fff", "red"}, style : Styles]

\* 'path, circle, rect, ellipse, polygon, polyline, line'
isShape(el) == el.tag = "path"

\* $el.attr('style')?.includes('fill'): the text of the style contains
\* 'fill', be it in 'fill:' or in 'fill-rule:'.
styleIncludesFill(style) == style.present /\ (style.fill # "absent" \/ style.fillRule)

\* The replacement of a colour in a fill or stroke attribute or declaration.
toTarget(color) == IF color \in {"absent", "none"} THEN color ELSE TARGET_COLOR

\* transformNormalizeColors on one element: a shape without fill attribute
\* whose style does not contain 'fill' gets fill = TARGET_COLOR; then every
\* fill and stroke, attribute or declaration, other than 'none' becomes
\* TARGET_COLOR.
transformNormalizeColors(el) ==
  LET withFill == IF isShape(el) /\ el.fill = "absent" /\ ~styleIncludesFill(el.style)
                  THEN [el EXCEPT !.fill = TARGET_COLOR]
                  ELSE el
  IN  [withFill EXCEPT !.fill = toTarget(@),
                       !.stroke = toTarget(@),
                       !.style = [@ EXCEPT !.fill = toTarget(@), !.stroke = toTarget(@)]]

ColIdle ==
  /\ colPc = "idle"
  /\ element0 = [tag |-> "g", fill |-> "absent", stroke |-> "absent", style |-> NoStyle]
  /\ element = element0

ColInit ==
  /\ colPc = "colors"
  /\ element0 \in Elements
  /\ element = element0

\* One pass of the loop of TRANSFORM 0, for a file of one element.
ColNormalize ==
  /\ colPc = "colors"
  /\ element' = transformNormalizeColors(element)
  /\ colPc' = "written"
  /\ UNCHANGED element0
  /\ UNCHANGED <<dbtmVars, tlVars, atVars, tmVars, stVars, spVars, tvVars, fmVars>>

ColNext == ColNormalize

(***************************************************************************)
(* UI sprite builder: buildSprite, prefixIds                               *)
(* A name or an id is the sequence of its parts between hyphens: "a-b" is  *)
(* <<"a", "b">>, and `${prefix}-${localId}` is prefix \o localId.          *)
(***************************************************************************)

\* Largest number of icons in the UI_* folders, and of ids in one icon.
MaxUiIcons == 2
MaxLocalIds == 1

UiFolders == {"UI_A", "UI_B"}
\* basename(file, '.svg'): "a" and "a-b".
UiIconNames == {<<"a">>, <<"a", "b">>}
\* Values of id="..." inside an icon: "b", "c" and "b-c".
LocalIds == {<<"b">>, <<"c">>, <<"b", "c">>}

\* Sequences without repetition.
IsInjective(s) == \A i, j \in 1..Len(s) : i # j => s[i] # s[j]

\* An icon file: its folder, its name, and the values of the id attributes of
\* the elements in its <defs>, in document order.
UiIcons == [folder : UiFolders, name : UiIconNames,
            ids : {s \in BoundedSeq(LocalIds, MaxLocalIds) : IsInjective(s)}]

\* The icons in the order buildSprite meets them: folder after folder in
\* sorted order, no two files of one folder with the same name.
UiInputs ==
  {s \in BoundedSeq(UiIcons, MaxUiIcons) :
     \A i, j \in 1..Len(s) :
       i < j => /\ (s[i].folder = "UI_A" \/ s[j].folder = "UI_B")
                /\ (s[i].folder = s[j].folder => s[i].name # s[j].name)}

\* const ids = new Set() filled by idPattern: the distinct ids, in the order
\* of their first occurrence.
RECURSIVE distinctIds(_)
distinctIds(s) ==
  IF s = <<>> THEN <<>>
  ELSE LET rest == distinctIds(SubSeq(s, 1, Len(s) - 1))
           last == s[Len(s)]
       IN  IF \E i \in 1..Len(rest) : rest[i] = last THEN rest ELSE Append(rest, last)

\* The loop of prefixIds over ids: every id="localId" of the content as it is
\* by then becomes id="prefix-localId".
RECURSIVE replaceIds(_, _, _)
replaceIds(content, ids, prefix) ==
  IF ids = <<>> THEN content
  ELSE replaceIds([i \in 1..Len(content) |->
                     IF content[i] = Head(ids) THEN prefix \o Head(ids) ELSE content[i]],
                  Tail(ids), prefix)

\* prefixIds(content, prefix)
prefixIds(content, prefix) == replaceIds(content, distinctIds(content), prefix)

SpIdle ==
  /\ spPc = "idle"
  /\ uiIcons = <<>> /\ iconPos = 0 /\ symbols = <<>> /\ globalDefs = <<>>
  /\ spriteFile = <<>>

SpInit ==
  /\ spPc = "icons"
  /\ uiIcons \in UiInputs
  /\ iconPos = 1 /\ symbols = <<>> /\ globalDefs = <<>>
  /\ spriteFile = <<>>

\* The first icon after position p that is in another folder than icon p.
nextFolderPos(p) ==
  IF \E q \in (p + 1)..Len(uiIcons) : uiIcons[q].folder # uiIcons[p].folder
  THEN CHOOSE q \in (p + 1)..Len(uiIcons) :
         /\ uiIcons[q].folder # uiIcons[p].folder
         /\ \A r \in (p + 1)..(q - 1) : uiIcons[r].folder = uiIcons[p].folder
  ELSE Len(uiIcons) + 1

\* One pass of the inner loop of buildSprite: the ids of the file are
\* prefixed, its <defs> go to globalDefs, a <symbol id=name> is added. When
\* reading the file throws, the catch of the folder skips the rest of it.
SpAddIcon ==
  /\ spPc = "icons"
  /\ iconPos <= Len(uiIcons)
  /\ LET icon == uiIcons[iconPos] IN
     \/ /\ globalDefs' = globalDefs \o prefixIds(icon.ids, icon.name)
        /\ symbols' = Append(symbols, icon.name)
        /\ iconPos' = iconPos + 1
     \/ /\ iconPos' = nextFolderPos(iconPos)
        /\ UNCHANGED <<symbols, globalDefs>>
  /\ UNCHANGED <<spPc, uiIcons, spriteFile>>
  /\ UNCHANGED <<dbtmVars, tlVars, atVars, tmVars, stVars, colVars, tvVars, fmVars>>

\* After the loops: the sprite is written, <defs> first, then the symbols;
\* SVGO runs with cleanupIds off and keeps the ids.
SpWriteSprite ==
  /\ spPc = "icons"
  /\ iconPos > Len(uiIcons)
  /\ spriteFile' = globalDefs \o symbols
  /\ spPc' = "done"
  /\ UNCHANGED <<uiIcons, iconPos, symbols, globalDefs>>
  /\ UNCHANGED <<dbtmVars, tlVars, atVars, tmVars, stVars, colVars, tvVars, fmVars>>

SpNext == SpAddIcon \/ SpWriteSprite

(***************************************************************************)
(* tooltv2: validateTimeviewDates                                          *)
(***************************************************************************)

\* Largest number of entries of the timeview.
MaxEntries == 1

\* A cell as it arrives in the JSON: a number; '' for an empty sheet cell
\* (getValues() yields '' and the Apps Script copies it); absent when the
\* key is null or undefined (the sheet has no such column).
NumCell(n) == [t |-> "num", n |-> n]
EmptyCell == [t |-> "empty", n |-> 0]
AbsentCell == [t |-> "absent", n |-> 0]

Entries == [startYear : {EmptyCell, NumCell(-1), NumCell(1), NumCell(2)},
            startMonth : {EmptyCell, NumCell(2)},
            startDay : {EmptyCell, NumCell(1)},
            endYear : {AbsentCell, EmptyCell, NumCell(1), NumCell(2)},
            endMonth : {EmptyCell, NumCell(1)},
            endDay : {EmptyCell, NumCell(2)}]

\* x === null || x === undefined
isNullish(x) == x.t = "absent"

\* x * 10000 in JavaScript: '' converts to 0, undefined to NaN.
timesTenThousand(x) ==
  IF x.t = "absent" THEN [nan |-> TRUE, n |-> 0]
  ELSE [nan |-> FALSE, n |-> (IF x.t = "num" THEN x.n ELSE 0) * 10000]

\* (x || 0)
orZero(x) == IF x.t = "num" THEN x.n ELSE 0

\* year * 10000 + (month || 0) * 100 + (day || 0)
dateValue(year, month, day) ==
  LET y == timesTenThousand(year) IN
  [nan |-> y.nan, n |-> y.n + orZero(month) * 100 + orZero(day)]

\* startDate > endDate; a comparison with NaN is false.
greaterThan(a, b) == ~a.nan /\ ~b.nan /\ a.n > b.n

\* The warning validateTimeviewDates pushes for entry number index, if any.
entryWarns(entry) ==
  /\ ~isNullish(entry.endYear)
  /\ greaterThan(dateValue(entry.startYear, entry.startMonth, entry.startDay),
                 dateValue(entry.endYear, entry.endMonth, entry.endDay))

\* validateTimeviewDates(data) for one culture with one title: the warnings,
\* in the order of the entries, each with the 1-based index of its entry.
validateTimeviewDates(entries) ==
  LET warned == SelectSeq([i \in 1..Len(entries) |-> i], LAMBDA i : entryWarns(entries[i]))
  IN  [k \in 1..Len(warned) |-> [culture |-> "culture", title |-> "title", index |-> warned[k]]]

\* HTTP responses of the Timeviews sheet: res.ok, and what res.json()
\* yields (see Responses); the payload is the list of entries.
Tv2Responses ==
  {[ok |-> o, body |-> b, data |-> <<>>] : o \in BOOLEAN, b \in {"notjson", "scalar"}}
  \cup {[ok |-> o, body |-> "object", data |-> d] :
          o \in BOOLEAN, d \in BoundedSeq(Entries, MaxEntries)}

Tv2Idle ==
  /\ tvPc = "idle"
  /\ tvRes = NoResponse /\ tvFetchOk = FALSE
  /\ tvData = <<>> /\ warnings = <<>> /\ tvSaveCalls = <<>> /\ tvExit = -1

Tv2Init ==
  /\ tvPc = "start"
  /\ tvRes = NoResponse /\ tvFetchOk = FALSE
  /\ tvData = <<>> /\ warnings = <<>> /\ tvSaveCalls = <<>> /\ tvExit = -1

\* tooltv2, up to the await: const data = await getSheetData(webappUrl).
\* A throw lands in the catch block, which exits with status 1.
Tv2Fetch ==
  /\ tvPc = "start"
  /\ \E res \in Tv2Responses :
       LET r == getSheetData(res) IN
       /\ tvRes' = res
       /\ IF r.thrown
          THEN /\ tvPc' = "exited"
               /\ tvExit' = 1
               /\ UNCHANGED <<tvData, tvFetchOk>>
          ELSE /\ tvPc' = "fetched"
               /\ tvData' = r.data
               /\ tvFetchOk' = TRUE
               /\ UNCHANGED tvExit
  /\ UNCHANGED <<warnings, tvSaveCalls>>
  /\ UNCHANGED <<dbtmVars, tlVars, atVars, tmVars, stVars, colVars, spVars, fmVars>>

\* tooltv2 after the await: validateTimeviewDates, the warnings printed,
\* saveJsonToFile; a failing write lands in the catch block (exit 1).
Tv2ValidateAndSave ==
  /\ tvPc = "fetched"
  /\ warnings' = validateTimeviewDates(tvData)
  /\ tvSaveCalls' = Append(tvSaveCalls, tvData)
  /\ tvPc' = "exited"
  /\ tvExit' \in {0, 1}
  /\ UNCHANGED <<tvData, tvRes, tvFetchOk>>
  /\ UNCHANGED <<dbtmVars, tlVars, atVars, tmVars, stVars, colVars, spVars, fmVars>>

Tv2Next == Tv2Fetch \/ Tv2ValidateAndSave

(***************************************************************************)
(* buildIcons_TimeMarks.mjs: calculateAtlasDimensions, buildAtlasForSize   *)
(***************************************************************************)

\* Largest number of icons in the icon map.
MaxIconCount == 14

\* Largest number of icons resvg or sharp cannot process.
MaxUnrenderable == 1

ATLAS_SIZES == <<128, 96, 64, 32>>

PADDING == 0

\* A JavaScript number: a natural number or NaN.
Num(n) == [nan |-> FALSE, n |-> n]
NaN == [nan |-> TRUE, n |-> 0]

\* Math.ceil(Math.sqrt(n)) of a natural number.
ceilSqrt(n) == CHOOSE k \in 0..n : k * k >= n /\ (k = 0 \/ (k - 1) * (k - 1) < n)

\* Math.ceil(a / b) of natural numbers: 0 / 0 is NaN.
ceilDiv(a, b) == IF b = 0 THEN NaN ELSE Num((a + b - 1) \div b)

\* The least power p * 2^k that is >= n.
RECURSIVE powerFrom(_, _)
powerFrom(p, n) == IF p >= n THEN p ELSE powerFrom(2 * p, n)

\* Math.pow(2, Math.ceil(Math.log2(n))): log2(0) is -Infinity and
\* 2^-Infinity is 0; NaN stays NaN.
nextPowerOf2(x) ==
  IF x.nan THEN NaN
  ELSE IF x.n = 0 THEN Num(0)
  ELSE Num(powerFrom(1, x.n))

\* NaN * k is NaN.
times(x, k) == IF x.nan THEN NaN ELSE Num(x.n * k)

\* Mutant of calculateAtlasDimensions: the height of a single row.
calculateAtlasDimensionsOneRow(iconCount, iconWidth, padding) ==
  LET paddedWidth == iconWidth + padding
      paddedHeight == iconWidth \div 2 + padding
      iconsPerRow == ceilSqrt(iconCount * 2)
  IN  [width |-> nextPowerOf2(Num(iconsPerRow * paddedWidth)),
       height |-> nextPowerOf2(Num(paddedHeight))]

calculateAtlasDimensions(iconCount, iconWidth, padding) ==
  LET iconHeight == iconWidth \div 2
      paddedWidth == iconWidth + padding
      paddedHeight == iconHeight + padding
      iconsPerRow == ceilSqrt(iconCount * 2)
      rows == ceilDiv(iconCount, iconsPerRow)
      minWidth == Num(iconsPerRow * paddedWidth)
      minHeight == times(rows, paddedHeight)
  IN  [width |-> nextPowerOf2(minWidth), height |-> nextPowerOf2(minHeight)]

\* The numeric ids of the icon files (first four digits of the file name).
IconIdOf(k) == (k * 2789 + 7) % 10000

\* The ids in the icon map: the first n ids.
IconIdSets == {{IconIdOf(k) : k \in 0..(n - 1)} : n \in 0..MaxIconCount}

\* iconId.toString(): the decimal digits.
RECURSIVE toString(_)
toString(n) == IF n < 10 THEN <<n>> ELSE toString(n \div 10) \o <<n % 10>>

\* str.padStart(targetLength, 0)
RECURSIVE padStart(_, _)
padStart(str, targetLength) ==
  IF Len(str) >= targetLength THEN str ELSE padStart(<<0>> \o str, targetLength)

\* a < b as strings (what sort() without a comparator uses).
RECURSIVE stringLess(_, _)
stringLess(a, b) ==
  IF a = <<>> THEN b # <<>>
  ELSE IF b = <<>> THEN FALSE
  ELSE IF Head(a) # Head(b) THEN Head(a) < Head(b)
  ELSE stringLess(Tail(a), Tail(b))

\* Mutant of sortNumeric: sort() without the comparator.
RECURSIVE sortAsStrings(_)
sortAsStrings(ids) ==
  IF ids = {} THEN <<>>
  ELSE LET m == CHOOSE x \in ids :
                  \A y \in ids \ {x} : stringLess(toString(x), toString(y))
       IN  <<m>> \o sortAsStrings(ids \ {m})

\* .sort((a, b) => a - b)
RECURSIVE sortNumeric(_)
sortNumeric(ids) ==
  IF ids = {} THEN <<>>
  ELSE LET m == CHOOSE x \in ids : \A y \in ids : x <= y
       IN  <<m>> \o sortNumeric(ids \ {m})

\* Mutant of framesOf: the first icon whose rendering throws ends the loop.
framesOfStopAtError(ids, iconWidth, iconsPerRow, failing) ==
  LET iconHeight == iconWidth \div 2
      frameId(i) == padStart(toString(ids[i + 1]), 4)
      done == {i \in 0..(Len(ids) - 1) : \A j \in 0..i : ids[j + 1] \notin failing}
      last(key) == CHOOSE i \in done : frameId(i) = key
  IN  [key \in {frameId(i) : i \in done} |->
         [x |-> (last(key) % iconsPerRow) * (iconWidth + PADDING),
          y |-> (last(key) \div iconsPerRow) * (iconHeight + PADDING),
          w |-> iconWidth, h |-> iconHeight]]

\* compositeOps after the loop of buildAtlasForSize: one entry, in the
\* order of the loop, for each icon whose rendering did not throw.
compositeOpsOf(ids, iconWidth, iconsPerRow, failing) ==
  LET iconHeight == iconWidth \div 2
      done == SelectSeq([i \in 1..Len(ids) |-> i - 1], LAMBDA i : ids[i + 1] \notin failing)
  IN  [k \in 1..Len(done) |->
         [input |-> ids[done[k] + 1],
          left |-> (done[k] % iconsPerRow) * (iconWidth + PADDING),
          top |-> (done[k] \div iconsPerRow) * (iconHeight + PADDING)]]

\* The frames object after the loop of buildAtlasForSize: the icon at
\* index i (from 0) gets its frame under its padded id unless rendering it
\* threw; a later icon with the same key would replace the frame.
framesOf(ids, iconWidth, iconsPerRow, failing) ==
  LET iconHeight == iconWidth \div 2
      frameId(i) == padStart(toString(ids[i + 1]), 4)
      done == {i \in 0..(Len(ids) - 1) : ids[i + 1] \notin failing}
      last(key) == CHOOSE i \in done :
                     /\ frameId(i) = key
                     /\ \A j \in done : frameId(j) = key => j <= i
  IN  [key \in {frameId(i) : i \in done} |->
         [x |-> (last(key) % iconsPerRow) * (iconWidth + PADDING),
          y |-> (last(key) \div iconsPerRow) * (iconHeight + PADDING),
          w |-> iconWidth, h |-> iconHeight]]

\* No atlas JSON written yet.
NoJson == << >>

FmIdle ==
  /\ fmPc = "idle"
  /\ fmIconMap = {} /\ unrenderable = {} /\ iconIds = <<>>
  /\ sizePos = 1 /\ atlasDims = <<>> /\ atlasJson = NoJson /\ atlasPng = NoJson
  /\ fmExit = -1

\* buildAtlas after buildIconMap.
FmInit ==
  /\ fmPc = "start"
  /\ fmIconMap \in IconIdSets
  /\ unrenderable \in {u \in SUBSET fmIconMap : Cardinality(u) <= MaxUnrenderable}
  /\ iconIds = <<>>
  /\ sizePos = 1 /\ atlasDims = <<>> /\ atlasJson = NoJson /\ atlasPng = NoJson
  /\ fmExit = -1

\* buildAtlas: iconIds.
FmSortIds ==
  /\ fmPc = "start"
  /\ iconIds' = sortNumeric(fmIconMap)
  /\ fmPc' = "sizes"
  /\ UNCHANGED <<fmIconMap, unrenderable, sizePos, atlasDims, atlasJson, atlasPng, fmExit>>
  /\ UNCHANGED <<dbtmVars, tlVars, atVars, tmVars, stVars, colVars, spVars, tvVars>>

\* One call of buildAtlasForSize. CONFIG.atlasWidth and CONFIG.atlasHeight
\* are 0, so the calculated dimensions are used. sharp rejects a width or
\* height that is not a positive integer, and a write can fail: the
\* rejection reaches buildAtlas().catch.
FmBuildAtlasForSize ==
  /\ fmPc = "sizes"
  /\ sizePos <= Len(ATLAS_SIZES)
  /\ LET iconWidth == ATLAS_SIZES[sizePos]
         dims == calculateAtlasDimensions(Len(iconIds), iconWidth, PADDING)
         usable == ~dims.width.nan /\ ~dims.height.nan
                   /\ dims.width.n > 0 /\ dims.height.n > 0
     IN  /\ atlasDims' = Append(atlasDims, dims)
         /\ \/ /\ usable
               /\ atlasJson' =
                    (iconWidth :>
                       [frames |-> framesOf(iconIds, iconWidth,
                                            dims.width.n \div (iconWidth + PADDING),
                                            unrenderable),
                        size |-> [w |-> dims.width.n, h |-> dims.height.n]])
                    @@ atlasJson
               /\ atlasPng' =
                    (iconWidth :>
                       compositeOpsOf(iconIds, iconWidth,
                                      dims.width.n \div (iconWidth + PADDING),
                                      unrenderable))
                    @@ atlasPng
               /\ sizePos' = sizePos + 1
               /\ UNCHANGED <<fmPc, fmExit>>
            \/ /\ fmPc' = "failed"
               /\ fmExit' = 1
               /\ UNCHANGED <<atlasJson, atlasPng, sizePos>>
  /\ UNCHANGED <<fmIconMap, unrenderable, iconIds>>
  /\ UNCHANGED <<dbtmVars, tlVars, atVars, tmVars, stVars, colVars, spVars, tvVars>>

\* buildAtlas: summary after the last size.
FmSummary ==
  /\ fmPc = "sizes"
  /\ sizePos > Len(ATLAS_SIZES)
  /\ fmPc' = "done"
  /\ fmExit' = 0
  /\ UNCHANGED <<fmIconMap, unrenderable, iconIds, sizePos, atlasDims, atlasJson, atlasPng>>
  /\ UNCHANGED <<dbtmVars, tlVars, atVars, tmVars, stVars, colVars, spVars, tvVars>>

FmNext == FmSortIds \/ FmBuildAtlasForSize \/ FmSummary

(***************************************************************************)
(* Specifications                                                          *)
(***************************************************************************)

InitDbtm == DbtmInit /\ TlIdle /\ AtIdle /\ TmIdle /\ StIdle /\ ColIdle /\ SpIdle /\ Tv2Idle /\ FmIdle

SpecDbtm == InitDbtm /\ [][DbtmNext]_vars

InitAtlas == DbtmIdle /\ TlIdle /\ AtInit /\ TmIdle /\ StIdle /\ ColIdle /\ SpIdle /\ Tv2Idle /\ FmIdle

SpecAtlas == InitAtlas /\ [][AtNext]_vars

InitCenter == DbtmIdle /\ TlIdle /\ AtIdle /\ TmInit /\ StIdle /\ ColIdle /\ SpIdle /\ Tv2Idle /\ FmIdle

SpecCenter == InitCenter /\ [][TmNext]_vars

InitStages == DbtmIdle /\ TlIdle /\ AtIdle /\ TmIdle /\ StInit /\ ColIdle /\ SpIdle /\ Tv2Idle /\ FmIdle

SpecStages == InitStages /\ [][StNext]_vars

InitColors == DbtmIdle /\ TlIdle /\ AtIdle /\ TmIdle /\ StIdle /\ ColInit /\ SpIdle /\ Tv2Idle /\ FmIdle

SpecColors == InitColors /\ [][ColNext]_vars

InitSprite == DbtmIdle /\ TlIdle /\ AtIdle /\ TmIdle /\ StIdle /\ ColIdle /\ SpInit /\ Tv2Idle /\ FmIdle

SpecSprite == InitSprite /\ [][SpNext]_vars

InitTv2 ==
  DbtmIdle /\ TlIdle /\ AtIdle /\ TmIdle /\ StIdle /\ ColIdle /\ SpIdle /\ Tv2Init /\ FmIdle

SpecTv2 == InitTv2 /\ [][Tv2Next]_vars

\* One of the two sheet exporters is run.
InitExporters == InitDbtm \/ InitTv2

NextExporters == DbtmNext \/ Tv2Next

SpecExporters == InitExporters /\ [][NextExporters]_vars

InitFrames ==
  DbtmIdle /\ TlIdle /\ AtIdle /\ TmIdle /\ StIdle /\ ColIdle /\ SpIdle /\ Tv2Idle /\ FmInit

SpecFrames == InitFrames /\ [][FmNext]_vars

Init == DbtmIdle /\ TlInit /\ AtIdle /\ TmIdle /\ StIdle /\ ColIdle /\ SpIdle /\ Tv2Idle /\ FmIdle

Next ==
  \/ TlDbtm
  \/ TlScan
  \/ TlTmconvert
  \/ TlBackup
  \/ TlUpdateIcon
  \/ TlAtlas
  \/ TlGitAdd
  \/ TlGitCommit
  \/ TlGitPush

Spec == Init /\ [][Next]_vars

(***************************************************************************)
(* Claims about tooldbtm                                                   *)
(***************************************************************************)

\* Some value other than undefined and '' of wtId or of rank is on two rows.
HasDuplicate(rows) ==
  \E i, j \in 1..Len(rows), f \in {"wtId", "rank"} :
    /\ i # j
    /\ rows[i][f] = rows[j][f]
    /\ rows[i][f] \notin {"undefined", ""}

\* C1 as stated: when the process has ended, a duplicate wtId or rank among
\* the fetched rows means saveJsonToFile was never called, dbtm.json keeps
\* its previous content and the status is 1; a successful fetch without such
\* a duplicate means dbtm.json holds the fetched data.
C1_Original ==
  (dbtmPc = "exited" /\ dbtmFetchOk) =>
    /\ (dbtmData.isArr /\ HasDuplicate(dbtmData.rows)) =>
         (dbtmSaveCalls = <<>> /\ dbtmFile = DbtmFileInit /\ dbtmExit = 1)
    /\ ~HasDuplicate(dbtmData.rows) =>
         dbtmFile = [state |-> "written", data |-> dbtmData]

\* C1 as amended: a duplicate refuses the build (no call of saveJsonToFile,
\* dbtm.json unchanged, status 1). Without a duplicate, and with data[0] an
\* array of rows, saveJsonToFile is called once with the fetched data, and
\* either the write succeeds (dbtm.json holds the data, status 0) or it fails
\* (status 1, dbtm.json does not hold the data). When data[0] is no array the
\* process ends with status 1 and dbtm.json unchanged.
C1_Amended ==
  (dbtmPc = "exited" /\ dbtmFetchOk) =>
    /\ (dbtmData.isArr /\ HasDuplicate(dbtmData.rows)) =>
         (dbtmSaveCalls = <<>> /\ dbtmFile = DbtmFileInit /\ dbtmExit = 1)
    /\ (dbtmData.isArr /\ ~HasDuplicate(dbtmData.rows)) =>
         /\ dbtmSaveCalls = <<dbtmData>>
         /\ \/ dbtmExit = 0 /\ dbtmFile = [state |-> "written", data |-> dbtmData]
            \/ dbtmExit = 1 /\ dbtmFile.state # "written"
    /\ ~dbtmData.isArr =>
         (dbtmSaveCalls = <<>> /\ dbtmFile = DbtmFileInit /\ dbtmExit = 1)

\* The build was refused for a rank that two rows share while every wtId is
\* different.
C1_Witness ==
  /\ dbtmPc = "exited"
  /\ dbtmFetchOk
  /\ dbtmData.isArr
  /\ \E i, j \in 1..Len(dbtmData.rows) :
       /\ i # j
       /\ dbtmData.rows[i].rank = dbtmData.rows[j].rank
       /\ dbtmData.rows[i].rank \notin {"undefined", ""}
  /\ \A i, j \in 1..Len(dbtmData.rows) :
       i # j => dbtmData.rows[i].wtId # dbtmData.rows[j].wtId
  /\ dbtmExit = 1
  /\ dbtmFile = DbtmFileInit

(***************************************************************************)
(* Claims about tooltl                                                     *)
(***************************************************************************)

LogIdx == 1..Len(tlLog)
Ran(c) == \E i \in LogIdx : tlLog[i].op = "run" /\ tlLog[i].cmd = c
Failed(c) == \E i \in LogIdx : tlLog[i].op = "run" /\ tlLog[i].cmd = c /\ ~tlLog[i].ok
Succeeded(c) == \E i \in LogIdx : tlLog[i].op = "run" /\ tlLog[i].cmd = c /\ tlLog[i].ok
GitCmds == {"git add -A", "git add Jsons/dbtm.json", "git commit", "git push"}
NoGit == \A i \in LogIdx : tlLog[i].cmd \notin GitCmds
NoFileOp == \A i \in LogIdx : tlLog[i].op = "run"
IconDirsAsAtStart == source = source0 /\ tmIcons = tmIcons0 /\ backup = {}
PlainMsg == [text |-> "update dbtm", N |-> 0]

\* C2: a failed dbtm or atlas step ends the run with status 1 and no git
\* add, commit or push is run; after a failed dbtm step tmconvert has not
\* been started and no file of source/, target/, TM_Icons/ or the backup
\* folder has been moved or deleted.
C2_FailureEndsRun ==
  /\ (Failed("dbtm") \/ Failed("atlas")) =>
       (tlPc = "exited" /\ tlExit = 1 /\ NoGit)
  /\ Failed("dbtm") =>
       (~Ran("tmconvert") /\ NoFileOp /\ IconDirsAsAtStart /\ target = target0)

\* The atlas step failed after icons had been moved into TM_Icons/.
C2_Witness ==
  /\ Failed("atlas")
  /\ tlExit = 1
  /\ Len(committedSvgs) > 0

\* C3: after a failed tmconvert no source file is backed up, TM_Icons/ is
\* left alone and the atlas is not rebuilt; the run goes on to the git step,
\* stages Jsons/dbtm.json only and commits with the message 'update dbtm'.
C3_TmconvertFailure ==
  Failed("tmconvert") =>
    /\ NoFileOp /\ IconDirsAsAtStart /\ ~Ran("atlas")
    /\ tlPc \in {"git", "commit", "push", "done"}
    /\ ~Ran("git add -A")
    /\ tlPc \in {"commit", "push", "done"} => Ran("git add Jsons/dbtm.json")
    /\ tlPc \in {"push", "done"} =>
         \E i \in LogIdx : tlLog[i].cmd = "git commit" /\ tlLog[i].msg = PlainMsg

\* tmconvert failed after writing into target/, and the run committed and
\* pushed dbtm.
C3_Witness ==
  /\ Failed("tmconvert")
  /\ target # target0
  /\ tlPc = "done"
  /\ Ran("git push")

\* source/ held no file whose name ends in .svg or .png, in any case.
NoIconInSource == \A f \in source0 : f.ext \notin {"svg", "SVG", "png", "PNG"}

\* The commands of the log, in order.
LogCmds == [i \in LogIdx |-> tlLog[i].cmd]
IsPrefix(s, t) == Len(s) <= Len(t) /\ \A i \in 1..Len(s) : s[i] = t[i]

\* C4: without SVG/PNG in source/, tmconvert and atlas are never run, no
\* file is moved or deleted, and the run consists of dbtm, staging
\* Jsons/dbtm.json, the commit 'update dbtm' and the push.
C4_NoIconsDbtmOnly ==
  NoIconInSource =>
    /\ ~Ran("tmconvert") /\ ~Ran("atlas")
    /\ NoFileOp /\ IconDirsAsAtStart /\ target = target0
    /\ IsPrefix(LogCmds, <<"dbtm", "git add Jsons/dbtm.json", "git commit", "git push">>)
    /\ \A i \in LogIdx : tlLog[i].cmd = "git commit" => tlLog[i].msg = PlainMsg

\* A run with only other files in source/ that committed and pushed.
C4_Witness ==
  /\ NoIconInSource
  /\ source0 # {}
  /\ tlPc = "done"
  /\ Ran("git push")

\* Step 3b/c has run to its end.
UpdateDone == converted # {} /\ pending = {}

\* The name the converted icon of a source file has in TM_Icons/.
IconOf(f) == IF f.ext \in {"png", "PNG"} THEN [f EXCEPT !.ext = "svg"] ELSE f

SvgWithPrefix(dir, n) == {g \in dir : g.ext \in {"svg", "SVG"} /\ g.num = n}

\* Files of TM_Icons/ whose number prefix no converted icon has are neither
\* unlinked nor replaced.
OtherPrefixesUntouched ==
  \A g \in tmIcons0 :
    (g.num # 0 /\ \A f \in converted : IconOf(f).num # g.num) =>
      (g \in tmIcons /\ \A i \in LogIdx : tlLog[i].file # g)

AloneWithPrefix(f) ==
  /\ IconOf(f).num # 0
  /\ \A g \in converted : g # f => IconOf(g).num # IconOf(f).num

ConvertedSources ==
  {f \in source0 : /\ f.ext \in {"svg", "SVG", "png", "PNG"}
                   /\ IconOf(f) \in targetAfterTm}

MovedIntoTmIcons ==
  Cardinality({i \in LogIdx : tlLog[i].op = "rename" /\ tlLog[i].to = "TM_Icons"})

\* C7: a run makes at most one git commit; it comes after a successful dbtm
\* and after every other command and file operation except git add and git
\* push; git push is run only after a commit that succeeded; the message is
\* 'update dbtm + N TM icon(s)' with N the number of icons moved into
\* TM_Icons/ when N > 0 and 'update dbtm' otherwise.
C7_SingleCommit ==
  LET commits == {i \in LogIdx : tlLog[i].cmd = "git commit"} IN
  /\ Cardinality(commits) <= 1
  /\ \A i \in commits :
       /\ \A j \in LogIdx : j > i => tlLog[j].cmd = "git push"
       /\ \E j \in LogIdx : j < i /\ tlLog[j].cmd = "dbtm" /\ tlLog[j].ok
       /\ pending = {}
       /\ tlLog[i].msg =
            IF MovedIntoTmIcons > 0
            THEN [text |-> "update dbtm + N TM icon(s)", N |-> MovedIntoTmIcons]
            ELSE [text |-> "update dbtm", N |-> 0]
  /\ \A j \in LogIdx :
       tlLog[j].cmd = "git push" =>
         \E i \in commits : i < j /\ tlLog[i].ok
  /\ Cardinality({j \in LogIdx : tlLog[j].cmd = "git push"}) <= 1

\* A run that moved two icons into TM_Icons/, committed and pushed.
C7_Witness ==
  /\ tlPc = "done"
  /\ MovedIntoTmIcons = 2
  /\ Ran("git push")

(***************************************************************************)
(* Claims about the atlas builder                                          *)
(***************************************************************************)

Range(f) == {f[x] : x \in DOMAIN f}

\* The width and height a file states: those of the viewBox when it has four
\* parts with a positive width and height, else those of the width and height
\* attributes when both are positive; <<>> when neither gives a ratio.
StatedSize(c) ==
  IF Len(c.viewBox) >= 4 /\ c.viewBox[3] > 0 /\ c.viewBox[4] > 0
  THEN <<c.viewBox[3], c.viewBox[4]>>
  ELSE IF c.attrs.width > 0 /\ c.attrs.height > 0
       THEN <<c.attrs.width, c.attrs.height>>
       ELSE <<>>

\* |w/h - 2| <= 0.1
WithinTolerance(size) ==
  LET w == size[1]
      h == size[2]
  IN  10 * w <= 21 * h /\ 10 * w >= 19 * h

\* The inclusion criteria: a name NNNN-name.svg, a content that can be read
\* and states a size of ratio 2:1 within the tolerance.
MeetsCriteria(f) ==
  /\ f.num > 0 /\ f.stem # "" /\ f.ext = "svg"
  /\ svgDirFiles[f].readable
  /\ StatedSize(svgDirFiles[f]) # <<>>
  /\ WithinTolerance(StatedSize(svgDirFiles[f]))

\* C8: every file of the icon map, as built in memory and as written to
\* tMIconMap.json, is a file of TM_Icons/ named NNNN-name.svg whose aspect
\* ratio, read from the viewBox or else from width/height, is 2:1 within 0.1;
\* a file whose aspect ratio cannot be determined is never in the map.
C8_IncludedOnlyIfValid ==
  \A f \in Range(iconMap) \cup Range(iconMapFile) :
    /\ f \in DOMAIN svgDirFiles
    /\ MeetsCriteria(f)

\* A finished build whose map holds an icon while a file with a well-formed
\* content but a name off the pattern, or a file without any aspect ratio,
\* was scanned and left out.
C8_Witness ==
  /\ atPc = "done"
  /\ DOMAIN iconMapFile # {}
  /\ \E f \in scanned :
       /\ f \notin Range(iconMapFile)
       /\ svgDirFiles[f].readable
       /\ \/ f.num = 0 /\ StatedSize(svgDirFiles[f]) = <<400, 200>>
          \/ f.num > 0 /\ f.stem # "" /\ StatedSize(svgDirFiles[f]) = <<>>

\* The reasons a file fails the criteria for.
ReasonsFor(f) ==
  IF ~svgDirFiles[f].readable THEN {ERR_READ}
  ELSE (IF f.num > 0 /\ f.stem # "" THEN {} ELSE {ERR_FILENAME})
       \cup (IF StatedSize(svgDirFiles[f]) = <<>> THEN {ERR_NO_ASPECT}
             ELSE IF WithinTolerance(StatedSize(svgDirFiles[f])) THEN {}
             ELSE {ERR_ASPECT})

C10_Original ==
  (tmPc = "written" /\ ~contentBounds.nan) =>
    /\ svgAttrs.width = 400
    /\ svgAttrs.height = 200
    /\ ~svgAttrs.viewBox.nan
    /\ svgAttrs.viewBox.width = 2 * svgAttrs.viewBox.height

\* The file has been written from finite content bounds.
Centered == tmPc = "written" /\ ~contentBounds.nan

\* Width is the constraining dimension (content aspect > 2), as the claims
\* name it.
WidthConstrains ==
  \/ contentBounds.height = 0 /\ contentBounds.width > 0
  \/ contentBounds.height > 0 /\ contentBounds.width > 2 * contentBounds.height

ConstrainingContent == IF WidthConstrains THEN contentBounds.width ELSE contentBounds.height
ConstrainingViewBox ==
  IF WidthConstrains THEN svgAttrs.viewBox.width ELSE svgAttrs.viewBox.height
OtherContent == IF WidthConstrains THEN contentBounds.height ELSE contentBounds.width
OtherViewBox == IF WidthConstrains THEN svgAttrs.viewBox.height ELSE svgAttrs.viewBox.width

\* The content fills 96-99% of the constraining dimension of the viewBox and
\* at most 99% of the other one.
FillInRange ==
  /\ ConstrainingViewBox > 0
  /\ 96 * ConstrainingViewBox <= 100 * ConstrainingContent
  /\ 100 * ConstrainingContent <= 99 * ConstrainingViewBox
  /\ 100 * OtherContent <= 99 * OtherViewBox

\* The content does not extend beyond the viewBox on any side.
NoClipping ==
  /\ svgAttrs.viewBox.x <= contentBounds.x
  /\ svgAttrs.viewBox.y <= contentBounds.y
  /\ contentBounds.x + contentBounds.width <= svgAttrs.viewBox.x + svgAttrs.viewBox.width
  /\ contentBounds.y + contentBounds.height <= svgAttrs.viewBox.y + svgAttrs.viewBox.height

AbsDiff(a, b) == IF a >= b THEN a - b ELSE b - a

LeftMargin == contentBounds.x - svgAttrs.viewBox.x
RightMargin ==
  (svgAttrs.viewBox.x + svgAttrs.viewBox.width) - (contentBounds.x + contentBounds.width)
TopMargin == contentBounds.y - svgAttrs.viewBox.y
BottomMargin ==
  (svgAttrs.viewBox.y + svgAttrs.viewBox.height) - (contentBounds.y + contentBounds.height)

\* C12: in the viewBox transformCenter writes, the left and right margins of
\* the content differ by less than 1 unit, and so do the top and bottom
\* margins.
C12_Centred ==
  Centered =>
    /\ AbsDiff(LeftMargin, RightMargin) < 1000
    /\ AbsDiff(TopMargin, BottomMargin) < 1000

\* A file written with margins of more than a unit on the left and right,
\* from content at a negative origin.
C12_Witness ==
  /\ Centered
  /\ contentBounds.x < 0
  /\ LeftMargin > 1000
  /\ RightMargin > 1000

(***************************************************************************)
(* Claims about the stage order of tmconvert                               *)
(***************************************************************************)

\* The position of a stage in the order Pre-process, Transform 0, 1, 2, 3,
\* validation.
StageRank(name) ==
  CASE name = "preprocess" -> 1 [] name = "colors" -> 2 [] name = "resize" -> 3
    [] name = "bake" -> 4 [] name = "center" -> 5 [] name = "validation" -> 6

\* The passes of the stage of rank r among the first n entries of the log.
PassesBefore(r, n) == {i \in 1..n : StageRank(stageLog[i].stage) = r}

IsWhite(color) == color \in {"#fff", "#ffffff"}

\* C14: after Transform 0 no white fill or stroke has become 'none', every
\* fill or stroke value, attribute or inline style, is 'none' or '#ffffff',
\* and a shape element has an explicit fill (attribute or style).
C14_Original ==
  colPc = "written" =>
    /\ IsWhite(element0.fill) => element.fill # "none"
    /\ IsWhite(element0.stroke) => element.stroke # "none"
    /\ IsWhite(element0.style.fill) => element.style.fill # "none"
    /\ \A v \in {element.fill, element.stroke, element.style.fill, element.style.stroke} :
         v \in {"absent", "none", "#ffffff"}
    /\ element.tag = "path" => (element.fill # "absent" \/ element.style.fill # "absent")

(***************************************************************************)
(* Claims about the UI sprite builder                                      *)
(***************************************************************************)

\* C15: the id attributes of the sprites-ui.svg written, symbol ids and ids
\* hoisted into the global <defs>, are pairwise distinct.
C15_Original == spPc = "done" => IsInjective(spriteFile)

(***************************************************************************)
(* Claims about tooltv2                                                    *)
(***************************************************************************)

\* A missing month or day counts as 0.
Part(x) == IF x.t = "num" THEN x.n ELSE 0

\* The entry has an end year, and its start (year, month, day) is later than
\* its end (year, month, day).
StartsAfterEnd(e) ==
  /\ e.endYear.t = "num"
  /\ e.startYear.t = "num"
  /\ \/ e.startYear.n > e.endYear.n
     \/ /\ e.startYear.n = e.endYear.n
        /\ \/ Part(e.startMonth) > Part(e.endMonth)
           \/ /\ Part(e.startMonth) = Part(e.endMonth)
              /\ Part(e.startDay) > Part(e.endDay)

\* C16: when tooltv2 has ended, the warnings hold exactly one entry, with its
\* 1-based index, for each entry that has an end year and starts after its
\* end, and none else; saveJsonToFile was called with the data.
C16_Original ==
  (tvPc = "exited" /\ tvFetchOk) =>
    /\ \A i \in 1..Len(tvData) :
         Cardinality({k \in 1..Len(warnings) : warnings[k].index = i})
           = IF StartsAfterEnd(tvData[i]) THEN 1 ELSE 0
    /\ \A k \in 1..Len(warnings) : warnings[k].index \in 1..Len(tvData)
    /\ tvSaveCalls = <<tvData>>

\* C17: no warning is about an entry whose endYear cell was empty in the
\* sheet.
C17_Original ==
  \A k \in 1..Len(warnings) : tvData[warnings[k].index].endYear.t # "empty"

(***************************************************************************)
(* Claims about the atlas dimensions and the frames                        *)
(***************************************************************************)

\* The frame rectangles of the JSON written for a size.
FrameRects(size) == {atlasJson[size].frames[k] : k \in DOMAIN atlasJson[size].frames}

Inside(r, size) ==
  /\ 0 <= r.x /\ r.x + r.w <= size.w
  /\ 0 <= r.y /\ r.y + r.h <= size.h

Overlap(r, s) ==
  /\ r.x < s.x + s.w /\ s.x < r.x + r.w
  /\ r.y < s.y + s.h /\ s.y < r.y + r.h

\* C18: in every timeline-atlas-{size}.json written for an icon map of at
\* least one icon, each frame rectangle lies inside meta.size and the frames
\* of two different keys do not overlap.
C18_FramesInsideAtlas ==
  \A size \in DOMAIN atlasJson :
    Len(iconIds) >= 1 =>
      /\ \A r \in FrameRects(size) : Inside(r, atlasJson[size].size)
      /\ \A k1, k2 \in DOMAIN atlasJson[size].frames :
           k1 # k2 => ~Overlap(atlasJson[size].frames[k1], atlasJson[size].frames[k2])

\* C18 witness: the JSON of the 128 atlas and of the 96 atlas are written,
\* with frames in a second row.
C18_Witness ==
  /\ {128, 96} \subseteq DOMAIN atlasJson
  /\ \E r \in FrameRects(128) : r.y > 0 /\ r.x > 0
  /\ \E r \in FrameRects(96) : r.y > 0

IsPowerOf2(x) == ~x.nan /\ x.n >= 1 /\ powerFrom(1, x.n) = x.n

\* The minimum grid size of calculateAtlasDimensions for n icons.
GridColumns(n) == ceilSqrt(n * 2)
GridRows(n) == CHOOSE r \in 0..n : r * GridColumns(n) >= n /\ (r = 0 \/ (r - 1) * GridColumns(n) < n)

\* C19: every value calculateAtlasDimensions returned, for any icon count
\* (0 included), has a width and a height that are powers of 2 and at least
\* iconsPerRow * paddedWidth and rows * paddedHeight.
C19_Original ==
  \A c \in 1..Len(atlasDims) :
    LET d == atlasDims[c]
        n == Cardinality(fmIconMap)
        iconWidth == ATLAS_SIZES[c]
    IN  /\ IsPowerOf2(d.width) /\ IsPowerOf2(d.height)
        /\ d.width.n >= GridColumns(n) * (iconWidth + PADDING)
        /\ d.height.n >= GridRows(n) * (iconWidth \div 2 + PADDING)

\* The number a frame key spells.
RECURSIVE DecimalValue(_)
DecimalValue(key) ==
  IF key = <<>> THEN 0 ELSE 10 * DecimalValue(SubSeq(key, 1, Len(key) - 1)) + key[Len(key)]

\* The keys of the frames that spell the id.
KeysOf(size, id) == {k \in DOMAIN atlasJson[size].frames : DecimalValue(k) = id}

\* C20: iconIds holds the ids of the icon map in ascending order; in every
\* JSON written, each frame key has 4 digits and spells the id of one icon,
\* no id has two keys, and the frame of the icon at position i (from 0) is at
\* column i mod iconsPerRow and row floor(i / iconsPerRow), iconsPerRow being
\* floor(atlas width / icon width): the position i is the same in all sizes.
C20_Placement ==
  fmPc \in {"sizes", "done", "failed"} =>
    /\ Range(iconIds) = fmIconMap
    /\ \A i, j \in 1..Len(iconIds) : i < j => iconIds[i] < iconIds[j]
    /\ \A size \in DOMAIN atlasJson :
         LET json == atlasJson[size]
             iconsPerRow == json.size.w \div size
         IN  /\ \A k \in DOMAIN json.frames :
                  Len(k) = 4 /\ DecimalValue(k) \in fmIconMap
             /\ \A i \in 1..Len(iconIds) :
                  /\ Cardinality(KeysOf(size, iconIds[i])) <= 1
                  /\ iconIds[i] \notin unrenderable =>
                       \E k \in KeysOf(size, iconIds[i]) :
                         json.frames[k] =
                           [x |-> ((i - 1) % iconsPerRow) * size,
                            y |-> ((i - 1) \div iconsPerRow) * (size \div 2),
                            w |-> size, h |-> size \div 2]

\* C20 witness: all four sizes are written for an icon map whose ids do not
\* have the same number of digits, with a frame in a second row.
C20_Witness ==
  /\ fmPc = "done"
  /\ DOMAIN atlasJson = Range(ATLAS_SIZES)
  /\ \E a, b \in fmIconMap : Len(toString(a)) < Len(toString(b)) /\ b < 1000
  /\ \E r \in FrameRects(32) : r.y > 0

\* The sizes whose call of buildAtlasForSize returned.
SizesBuilt == {ATLAS_SIZES[p] : p \in 1..(sizePos - 1)}

\* C21: with icons whose rendering throws, every size built has its PNG and
\* its JSON written; an icon whose rendering threw has no frame and no
\* composite entry; every other icon has exactly one composite entry and a
\* frame, both at the column and row of its index in iconIds; and the run
\* that has ended well has built all sizes.
C21_ErrorIsolation ==
  unrenderable # {} =>
    /\ SizesBuilt = DOMAIN atlasJson /\ SizesBuilt = DOMAIN atlasPng
    /\ fmPc = "done" => SizesBuilt = Range(ATLAS_SIZES)
    /\ \A size \in SizesBuilt :
         LET iconsPerRow == atlasJson[size].size.w \div size
             ops == atlasPng[size]
         IN  \A i \in 1..Len(iconIds) :
               LET id == iconIds[i]
                   mine == {k \in 1..Len(ops) : ops[k].input = id}
               IN  IF id \in unrenderable
                   THEN KeysOf(size, id) = {} /\ mine = {}
                   ELSE /\ Cardinality(mine) = 1
                        /\ \A k \in mine :
                             /\ ops[k].left = ((i - 1) % iconsPerRow) * size
                             /\ ops[k].top = ((i - 1) \div iconsPerRow) * (size \div 2)
                        /\ \E key \in KeysOf(size, id) :
                             /\ atlasJson[size].frames[key].x = ((i - 1) % iconsPerRow) * size
                             /\ atlasJson[size].frames[key].y = ((i - 1) \div iconsPerRow) * (size \div 2)

\* C21 witness: the run has ended well although the rendering of an icon
\* that is not the last one threw, and icons after it have their frames.
C21_Witness ==
  /\ fmPc = "done"
  /\ \E i \in 1..Len(iconIds) :
       /\ iconIds[i] \in unrenderable
       /\ i + 2 <= Len(iconIds)
       /\ KeysOf(128, iconIds[i]) = {}
       /\ KeysOf(128, iconIds[i + 1]) # {}

(***************************************************************************)
(* Claims about the failure of getSheetData                                *)
(***************************************************************************)

\* The response is ok and its body parsed to a non-null object.
GoodResponse(res) == res.ok /\ res.body = "object"

\* C22: in tooldbtm and in tooltv2, getSheetData has returned a value only
\* if the response was ok and its body parsed to a non-null object, and the
\* value is that object; when it threw, the run has ended with status 1,
\* saveJsonToFile was never called and the output file is as it was.
C22_FetchFailure ==
  /\ dbtmFetchOk => (GoodResponse(dbtmRes) /\ dbtmData = dbtmRes.data)
  /\ tvFetchOk => (GoodResponse(tvRes) /\ tvData = tvRes.data)
  /\ (dbtmRes # NoResponse /\ ~GoodResponse(dbtmRes)) =>
       /\ dbtmPc = "exited" /\ dbtmExit = 1
       /\ dbtmSaveCalls = <<>> /\ dbtmFile = DbtmFileInit
  /\ (tvRes # NoResponse /\ ~GoodResponse(tvRes)) =>
       /\ tvPc = "exited" /\ tvExit = 1
       /\ tvSaveCalls = <<>>

\* C22 witness: tooltv2 has ended after a response that was not ok although
\* its body was a JSON object with entries.
C22_Witness ==
  /\ tvPc = "exited"
  /\ ~tvRes.ok /\ tvRes.body = "object" /\ tvRes.data # <<>>
  /\ tvExit = 1 /\ tvSaveCalls = <<>>

====
